---------------------------- MODULE Spec2Model ----------------------------
(* The native messaging host of web-adb (src/native-host/web-adb.go): the  *)
(* request loop, the push-stream registry and the per-device fan-out of    *)
(* chunks.  One action is the handling of one message by doMain.           *)
EXTENDS Integers, Sequences, FiniteSets, TLC

(***************************************************************************)
(* The fields of the model's records.  TLC keeps a record's fields in the  *)
(* order in which their names first occur in the module; every record     *)
(* below is written in this order.                                         *)
(***************************************************************************)

FieldOrder ==
  [ ok |-> 1, bytes |-> 2, st |-> 3, written |-> 4, closes |-> 5,
    late |-> 6, kind |-> 7, StreamID |-> 8, LastChunkIndex |-> 9,
    DeviceStreams |-> 10, DeviceErrors |-> 11, ChunkIndex |-> 12,
    EndOfStream |-> 13, Success |-> 14, Error |-> 15, Command |-> 16,
    Data |-> 17, heap |-> 18, pushStreams |-> 19, handle |-> 20,
    parses |-> 21, command |-> 22, device_serial |-> 23, paramsOk |-> 24,
    stream_id |-> 25, chunk_index |-> 26, eof |-> 27, g |-> 28, errs |-> 29,
    data |-> 30, err |-> 31, site |-> 32, serverOk |-> 33, listOk |-> 34,
    list |-> 35, opens |-> 36, failing |-> 37, newID |-> 38,
    Comment |-> 39, Name |-> 40, out |-> 41 ]

(***************************************************************************)
(* Bounds and universes                                                    *)
(***************************************************************************)

\* Chunk indexes a request may carry are -1 .. MaxChunks-1, so a stream
\* accepts at most MaxChunks chunks.
MaxChunks == 2

\* Longest list of serials ListDeviceSerials returns.
MaxDevices == 2

\* Device write handles the devices let the host open in one run.
MaxHandles == 2

\* Device serials known to the adb server.
Serials == {"A", "B"}

\* The values uuid.NewRandom() can return.
StreamIDs == {"s1", "s2"}

ChunkIndexes == (-1) .. (MaxChunks - 1)

(***************************************************************************)
(* base64.StdEncoding.DecodeString                                         *)
(***************************************************************************)

\* The standard alphabet; a character's value is its position minus one.
encodeStd ==
  << "A","B","C","D","E","F","G","H","I","J","K","L","M","N","O","P",
     "Q","R","S","T","U","V","W","X","Y","Z","a","b","c","d","e","f",
     "g","h","i","j","k","l","m","n","o","p","q","r","s","t","u","v",
     "w","x","y","z","0","1","2","3","4","5","6","7","8","9","+","/" >>

StdPadding == "="

IsAlpha(c) == \E i \in 1..Len(encodeStd) : encodeStd[i] = c

decodeMap(c) == (CHOOSE i \in 1..Len(encodeStd) : encodeStd[i] = c) - 1

DecodeError == [ok |-> FALSE, bytes |-> << >>]

\* The decoder is not strict: the unused low bits of a padded quantum are
\* dropped without a check.
\* The first n bytes of the 24 bits v.
quantumBytes(v, n) ==
  SubSeq(<< v \div 65536, (v \div 256) % 256, v % 256 >>, 1, n)

\* The 24 bits of a quantum whose first n characters are of the alphabet.
quantumBits(q, n) ==
  decodeMap(q[1]) * 262144 + decodeMap(q[2]) * 4096
    + (IF n >= 3 THEN decodeMap(q[3]) * 64 ELSE 0)
    + (IF n >= 4 THEN decodeMap(q[4]) ELSE 0)

\* The characters of q before its padding; 0 when q is malformed.
quantumLen(q, last) ==
  IF \A i \in 1..4 : IsAlpha(q[i]) THEN 4
  ELSE IF last /\ (\A i \in 1..3 : IsAlpha(q[i])) /\ q[4] = StdPadding
  THEN 3
  ELSE IF last /\ (\A i \in 1..2 : IsAlpha(q[i]))
          /\ q[3] = StdPadding /\ q[4] = StdPadding
  THEN 2
  ELSE 0

quantumOf(q, n) ==
  IF n = 0 THEN DecodeError
  ELSE [ok |-> TRUE, bytes |-> quantumBytes(quantumBits(q, n), n - 1)]

\* One quantum of four characters; only the last one may be padded.
decodeQuantum(q, last) == quantumOf(q, quantumLen(q, last))

\* The bytes of a quantum followed by those of the rest of the input.
decodeJoin(q, rest) ==
  IF q.ok /\ rest.ok
  THEN [ok |-> TRUE, bytes |-> q.bytes \o rest.bytes]
  ELSE DecodeError

RECURSIVE DecodeString(_)
DecodeString(s) ==
  IF Len(s) = 0 THEN [ok |-> TRUE, bytes |-> << >>]
  ELSE IF Len(s) < 4 THEN DecodeError
  ELSE decodeJoin(decodeQuantum(SubSeq(s, 1, 4), Len(s) = 4),
                  DecodeString(SubSeq(s, 5, Len(s))))

\* The values of the "data" field the requests carry: the empty string,
\* "QQ==" (the byte 65) and "QUI" (its padding is missing).
DataValues == { << >>, <<"Q","Q","=","=">>, <<"Q","U","I">> }

(***************************************************************************)
(* Device write handles (io.WriteCloser of the adb client)                 *)
(***************************************************************************)

\* A handle that was never opened.
NoHandle == [st |-> "none", written |-> << >>, closes |-> 0, late |-> 0]

OpenWrite(h) == [h EXCEPT !.st = "open"]

\* Write(data): ok is whether the device accepts the write.  A write to a
\* handle that is not open is counted in late.
DevWrite(h, data, ok) ==
  IF h.st # "open" THEN [h EXCEPT !.late = @ + 1]
  ELSE IF ok THEN [h EXCEPT !.written = Append(@, data)]
  ELSE h

DevClose(h) == [h EXCEPT !.st = "closed", !.closes = @ + 1]


(***************************************************************************)
(* State                                                                   *)
(***************************************************************************)

VARIABLES
  heap,         \* the PushStream objects ever allocated, by StreamID
  pushStreams,  \* the keys of the registry map (each maps to heap[key])
  handle,       \* the device write handles, by <<StreamID, serial>>
  req,          \* the request doMain handled last
  env,          \* what the adb server and the devices did during it
  resp,         \* the response doMain sent for it
  accepted,     \* per stream, the number of chunks answered as accepted
  closedBy,     \* per stream, the call site of the Close that removed it
  chunks,       \* per stream, the data of the chunks answered as accepted
  pc,           \* doMain's position in its loop
  msgs,         \* the number of messages doMain has read from stdin
  msg,          \* what readMessage returned last: "nil" or "data"
  frames,       \* the number of frames doMain has written to stdout
  port,         \* the extension's connection to the native host
  streamId,     \* the extension's streamId
  chunkIndex,   \* the extension's chunkIndex
  payload,      \* the bytes the extension read for the chunk it posted last
  outbox,       \* the messages posted to the host and not yet read by it
  inbox,        \* the host's responses not yet delivered to onMessage
  body,         \* the response body an EventSource has written
  event,        \* the Event SendEvent was called with last
  sseErr,       \* what the last SendEvent returned
  stdout,       \* the bytes sendMessage has written to its writer
  wEnd,         \* whether the writing process still holds the stream open
  lastMsg,      \* the message sendMessage was called with last
  sendErr,      \* what the last sendMessage returned
  sentMsgs,     \* the messages for which sendMessage returned nil
  sends,        \* the number of sendMessage calls
  rpos,         \* the number of bytes ReadMessage has consumed
  msgData,      \* the data the last ReadMessage returned
  readErr,      \* the error the last ReadMessage returned
  readMsgs      \* the data of the ReadMessage calls that returned some

\* The state of the request loop taken message by message.
hostVars == << heap, pushStreams, handle, req, env, resp, accepted, closedBy,
               chunks >>

\* doMain's position, for the loop taken step by step.
loopVars == << pc, msgs, msg, frames >>

\* The extension's side of a push.
senderVars == << port, streamId, chunkIndex, payload, outbox, inbox >>

\* The proxy's EventSource.
sseVars == << body, event, sseErr >>

\* The framed byte stream between sendMessage and ReadMessage.
frameVars == << stdout, wEnd, lastMsg, sendErr, sentMsgs, sends, rpos,
                msgData, readErr, readMsgs >>

vars == << hostVars, loopVars, senderVars, sseVars, frameVars >>

\* The program's memory as one value, threaded through the operations.
Mem == [heap |-> heap, pushStreams |-> pushStreams, handle |-> handle]

(***************************************************************************)
(* PushStream                                                              *)
(***************************************************************************)

\* uuid.NewRandom(): a value no earlier call returned.  Nothing reads an
\* identifier but to compare it, so one unused value stands for them all.
NewRandom ==
  LET unused == StreamIDs \ DOMAIN heap
  IN  IF unused = {} THEN {} ELSE {CHOOSE id \in unused : TRUE}

newPushStream(g, id) ==
  [g EXCEPT
     !.heap = (id :> [StreamID |-> id, LastChunkIndex |-> -1,
                      DeviceStreams |-> {}]) @@ g.heap,
     !.pushStreams = g.pushStreams \cup {id}]

\* Close without the delete from the registry.
CloseNoDelete(g, id) ==
  [g EXCEPT
     !.handle = [k \in DOMAIN g.handle |->
                   IF k[1] = id /\ k[2] \in g.heap[id].DeviceStreams
                   THEN DevClose(g.handle[k]) ELSE g.handle[k]]]

\* Close without the loop that closes the device streams.
CloseNoDevices(g, id) == [g EXCEPT !.pushStreams = g.pushStreams \ {id}]

\* Close closing every handle the stream ever opened, not those in its map.
CloseEveryHandle(g, id) ==
  [g EXCEPT
     !.handle = [k \in DOMAIN g.handle |->
                   IF k[1] = id /\ g.handle[k].st # "none"
                   THEN DevClose(g.handle[k]) ELSE g.handle[k]],
     !.pushStreams = g.pushStreams \ {id}]

Close(g, id) ==
  [g EXCEPT
     !.handle = [k \in DOMAIN g.handle |->
                   IF k[1] = id /\ k[2] \in g.heap[id].DeviceStreams
                   THEN DevClose(g.handle[k]) ELSE g.handle[k]],
     !.pushStreams = g.pushStreams \ {id}]

\* AddDevice storing the writer before it looks at OpenWrite's error.
AddDeviceStoresFailed(g, id, serial, openOk) ==
  IF serial \in g.heap[id].DeviceStreams
  THEN [g |-> g, err |-> "device stream already opened"]
  ELSE [g |-> [g EXCEPT
                 !.handle[<<id, serial>>] =
                    IF openOk THEN OpenWrite(@) ELSE @,
                 !.heap[id].DeviceStreams = @ \cup {serial}],
        err |-> IF openOk THEN "" ELSE "open failed"]

\* openOk: whether client.OpenWrite succeeds on that device.
AddDevice(g, id, serial, openOk) ==
  IF serial \in g.heap[id].DeviceStreams
  THEN [g |-> g, err |-> "device stream already opened"]
  ELSE IF ~openOk
  THEN [g |-> g, err |-> "open failed"]
  ELSE [g |-> [g EXCEPT
                 !.handle[<<id, serial>>] = OpenWrite(@),
                 !.heap[id].DeviceStreams = @ \cup {serial}],
        err |-> ""]

\* The loop of WriteChunk without the delete of a failed device stream.
writeEachNoDelete(g, id, bytes, failing) ==
  [g EXCEPT
     !.handle = [k \in DOMAIN g.handle |->
                   IF k[1] = id /\ k[2] \in g.heap[id].DeviceStreams
                   THEN IF k[2] \in failing
                        THEN DevClose(DevWrite(g.handle[k], bytes, FALSE))
                        ELSE DevWrite(g.handle[k], bytes, TRUE)
                   ELSE g.handle[k]]]

\* The loop of WriteChunk writing to the serial's handle of every stream.
writeEachAnyStream(g, id, bytes, failing) ==
  [g EXCEPT
     !.handle = [k \in DOMAIN g.handle |->
                   IF k[2] \in g.heap[id].DeviceStreams
                   THEN IF k[2] \in failing
                        THEN DevClose(DevWrite(g.handle[k], bytes, FALSE))
                        ELSE DevWrite(g.handle[k], bytes, TRUE)
                   ELSE g.handle[k]],
     !.heap[id].DeviceStreams = @ \ failing]

\* The loop of WriteChunk over the device streams: a handle whose write
\* fails is closed and deleted from the map.
writeEach(g, id, bytes, failing) ==
  [g EXCEPT
     !.handle = [k \in DOMAIN g.handle |->
                   IF k[1] = id /\ k[2] \in g.heap[id].DeviceStreams
                   THEN IF k[2] \in failing
                        THEN DevClose(DevWrite(g.handle[k], bytes, FALSE))
                        ELSE DevWrite(g.handle[k], bytes, TRUE)
                   ELSE g.handle[k]],
     !.heap[id].DeviceStreams = @ \ failing]

\* The end of WriteChunk counting the chunk before it looks at the map.
countChunkAlways(g, id) ==
  [g |-> [g EXCEPT !.heap[id].LastChunkIndex = @ + 1],
   err |-> IF g.heap[id].DeviceStreams = {}
           THEN "all device streams closed" ELSE ""]

\* The end of WriteChunk, after the loop.
countChunk(g, id) ==
  IF g.heap[id].DeviceStreams = {}
  THEN [g |-> g, err |-> "all device streams closed"]
  ELSE [g |-> [g EXCEPT !.heap[id].LastChunkIndex = @ + 1], err |-> ""]

\* WriteChunk with the result d of decoding its argument.
writeDecoded(g, id, d, failing) ==
  IF ~d.ok THEN [g |-> g, err |-> "error decoding data"]
  ELSE countChunk(writeEach(g, id, d.bytes, failing), id)

\* failing: the serials whose device rejects this write.
WriteChunk(g, id, base64Data, failing) ==
  writeDecoded(g, id, DecodeString(base64Data), failing)

(***************************************************************************)
(* Requests and responses                                                  *)
(***************************************************************************)

NoData == [kind |-> "none"]

PushFileResponse(id, errs) ==
  [kind |-> "push-file", StreamID |-> id, DeviceErrors |-> errs]

\* A PushChunkResponse that reports success whatever happened.
PushChunkResponseSucceeds(id, index, eof, success, error) ==
  [kind |-> "push-chunk", StreamID |-> id, ChunkIndex |-> index,
   EndOfStream |-> eof, Success |-> TRUE, Error |-> error]

PushChunkResponse(id, index, eof, success, error) ==
  [kind |-> "push-chunk", StreamID |-> id, ChunkIndex |-> index,
   EndOfStream |-> eof, Success |-> success, Error |-> error]

\* The action push-file passes to doWithDevice, applied to list[i..]:
\* AddDevice, and the device's error recorded under its serial.
RECURSIVE openEach(_, _, _, _, _, _)

\* a is what AddDevice returned for list[i].
openNext(id, list, opens, i, errs, a) ==
  openEach(a.g, id, list, opens, i + 1,
           IF a.err # "" THEN (list[i] :> a.err) @@ errs ELSE errs)

openEach(g, id, list, opens, i, errs) ==
  IF i > Len(list) THEN [g |-> g, errs |-> errs, err |-> ""]
  ELSE openNext(id, list, opens, i, errs,
                AddDevice(g, id, list[i], opens[i]))

\* doWithDevice with push-file's action: the empty serial means every
\* device ListDeviceSerials returns, and only that listing can fail.
doWithDevice(g, id, deviceSerial, e) ==
  IF deviceSerial = ""
  THEN IF ~e.listOk
       THEN [g |-> g, errs |-> << >>, err |-> "list devices failed"]
       ELSE openEach(g, id, e.list, e.opens, 1, << >>)
  ELSE openEach(g, id, <<deviceSerial>>, e.opens, 1, << >>)

Result(g, data, err, site) ==
  [g |-> g, data |-> data, err |-> err, site |-> site]

\* push-file once the devices were tried: d is what doWithDevice returned.
opened(id, d) ==
  IF d.err # ""
  THEN Result(Close(d.g, id), NoData, d.err, "open")
  ELSE Result(d.g, PushFileResponse(id, d.errs), "", "")

pushFile(g, r, e) ==
  IF ~r.paramsOk THEN Result(g, NoData, "invalid params", "")
  ELSE opened(e.newID,
              doWithDevice(newPushStream(g, e.newID), e.newID,
                           r.device_serial, e))

\* push-chunk answering a failed write without closing the stream.
writtenNoClose(r, w) ==
  IF w.err # ""
  THEN Result(w.g,
              PushChunkResponse(r.stream_id, r.chunk_index, TRUE, FALSE,
                                w.err), "", "")
  ELSE Result(w.g, PushChunkResponse(r.stream_id, r.chunk_index, FALSE,
                                     TRUE, ""), "", "")

\* push-chunk answering a failed write without setting EndOfStream.
writtenNoEof(r, w) ==
  IF w.err # ""
  THEN Result(Close(w.g, r.stream_id),
              PushChunkResponse(r.stream_id, r.chunk_index, FALSE, FALSE,
                                w.err), "", "write")
  ELSE Result(w.g, PushChunkResponse(r.stream_id, r.chunk_index, FALSE,
                                     TRUE, ""), "", "")

\* push-chunk once the chunk was written: w is what WriteChunk returned.
written(r, w) ==
  IF w.err # ""
  THEN Result(Close(w.g, r.stream_id),
              PushChunkResponse(r.stream_id, r.chunk_index, TRUE, FALSE,
                                w.err), "", "write")
  ELSE Result(w.g, PushChunkResponse(r.stream_id, r.chunk_index, FALSE,
                                     TRUE, ""), "", "")

\* A lookup that finds every stream ever created.
lookupCreated(g, id) == id \in DOMAIN g.heap

\* The registry lookup of push-chunk.
lookup(g, id) == id \in g.pushStreams

\* An order check that only rejects the chunks already written.
outOfOrderBehind(stream, index) == stream.LastChunkIndex >= index

\* The order check of push-chunk.
outOfOrder(stream, index) == stream.LastChunkIndex # index - 1

\* push-chunk with the order check ahead of the EOF branch.
pushChunkOrderFirst(g, r, e) ==
  IF ~r.paramsOk THEN Result(g, NoData, "invalid params", "")
  ELSE IF ~lookup(g, r.stream_id)
  THEN Result(g, NoData, "invalid stream ID", "")
  ELSE IF outOfOrder(g.heap[r.stream_id], r.chunk_index)
  THEN Result(g, PushChunkResponse(r.stream_id, r.chunk_index, FALSE, FALSE,
                                   "expected chunk"), "", "")
  ELSE IF r.eof
  THEN Result(Close(g, r.stream_id),
              PushChunkResponse(r.stream_id, r.chunk_index, TRUE, TRUE, ""),
              "", "eof")
  ELSE written(r, WriteChunk(g, r.stream_id, r.data, e.failing))

pushChunk(g, r, e) ==
  IF ~r.paramsOk THEN Result(g, NoData, "invalid params", "")
  ELSE IF ~lookup(g, r.stream_id)
  THEN Result(g, NoData, "invalid stream ID", "")
  ELSE IF r.eof
  THEN Result(Close(g, r.stream_id),
              PushChunkResponse(r.stream_id, r.chunk_index, TRUE, TRUE, ""),
              "", "eof")
  ELSE IF outOfOrder(g.heap[r.stream_id], r.chunk_index)
  THEN Result(g, PushChunkResponse(r.stream_id, r.chunk_index, FALSE, FALSE,
                                   "expected chunk"), "", "")
  ELSE written(r, WriteChunk(g, r.stream_id, r.data, e.failing))

handleRequest(g, r, e) ==
  IF ~e.serverOk THEN Result(g, NoData, "error connecting to adb", "")
  ELSE CASE r.command = "list-devices" ->
              IF e.listOk THEN Result(g, [kind |-> "list-devices"], "", "")
              ELSE Result(g, NoData, "list devices failed", "")
         [] r.command = "run-command" ->
              IF ~r.paramsOk THEN Result(g, NoData, "invalid params", "")
              ELSE IF r.device_serial = "" /\ ~e.listOk
              THEN Result(g, NoData, "list devices failed", "")
              ELSE Result(g, [kind |-> "run-command"], "", "")
         [] r.command = "push-file"  -> pushFile(g, r, e)
         [] r.command = "push-chunk" -> pushChunk(g, r, e)
         [] OTHER -> Result(g, NoData, "unrecognized command", "")

(***************************************************************************)
(* doMain: one message read, handled and answered                          *)
(***************************************************************************)

\* The fields of a message; parses is whether json.Unmarshal accepts it and
\* paramsOk whether its Params unmarshal into the command's struct.
Request(parses, command, serial, paramsOk, id, index, eof, data) ==
  [parses |-> parses, command |-> command, device_serial |-> serial,
   paramsOk |-> paramsOk, stream_id |-> id, chunk_index |-> index,
   eof |-> eof, data |-> data]

\* What the surroundings do while one request is handled: whether
\* adb.NewServer and ListDeviceSerials succeed, the serials listed, whether
\* the i-th OpenWrite succeeds, the serials whose device rejects a write,
\* and the value uuid.NewRandom returns.
Env(serverOk, listOk, list, opens, failing, newID) ==
  [serverOk |-> serverOk, listOk |-> listOk, list |-> list, opens |-> opens,
   failing |-> failing, newID |-> newID]

Quiet == Env(TRUE, TRUE, << >>, << >>, {}, "")

SerialLists == UNION { [1..n -> Serials] : n \in 0..MaxDevices }

Response(success, error, command, data) ==
  [Success |-> success, Error |-> error, Command |-> command, Data |-> data]

\* The end of doMain's loop for the message r: h is what handling it gave,
\* and the response is sent.
answer(r, e, h) ==
     /\ heap' = h.g.heap
     /\ pushStreams' = h.g.pushStreams
     /\ handle' = h.g.handle
     /\ req' = r
     /\ env' = e
     /\ resp' = IF h.err # ""
                THEN Response(FALSE, h.err, r.command, NoData)
                ELSE Response(TRUE, "", r.command, h.data)
     /\ accepted' =
          IF h.err = "" /\ h.data.kind = "push-chunk" /\ h.data.Success
             /\ ~r.eof
          THEN [accepted EXCEPT ![r.stream_id] = @ + 1]
          ELSE accepted
     /\ closedBy' =
          IF h.site = "" THEN closedBy
          ELSE [closedBy EXCEPT
                  ![IF h.site = "open" THEN e.newID ELSE r.stream_id] =
                     h.site]
     /\ chunks' =
          IF h.err = "" /\ h.data.kind = "push-chunk" /\ h.data.Success
             /\ ~r.eof
          THEN [chunks EXCEPT ![r.stream_id] = Append(@, r.data)]
          ELSE chunks

\* The body of doMain's loop for the message r.
doMain(r, e) ==
  /\ answer(r, e, IF ~r.parses
                  THEN Result(Mem, NoData, "error parsing message", "")
                  ELSE handleRequest(Mem, r, e))
  /\ UNCHANGED << loopVars, senderVars, sseVars, frameVars >>

Init ==
  /\ heap = << >>
  /\ pushStreams = {}
  /\ handle = [k \in StreamIDs \X Serials |-> NoHandle]
  /\ req = Request(FALSE, "", "", FALSE, "", 0, FALSE, << >>)
  /\ env = Quiet
  /\ resp = Response(FALSE, "", "", NoData)
  /\ accepted = [id \in StreamIDs |-> 0]
  /\ closedBy = [id \in StreamIDs |-> ""]
  /\ chunks = [id \in StreamIDs |-> << >>]
  /\ pc = "loop"
  /\ msgs = 0
  /\ msg = "nil"
  /\ frames = 0
  /\ port = "none"
  /\ streamId = ""
  /\ chunkIndex = 0
  /\ payload = << >>
  /\ outbox = << >>
  /\ inbox = << >>
  /\ body = << >>
  /\ event = [Data |-> << >>, Comment |-> << >>, Name |-> << >>]
  /\ sseErr = ""
  /\ stdout = << >>
  /\ wEnd = "open"
  /\ lastMsg = << >>
  /\ sendErr = ""
  /\ sentMsgs = << >>
  /\ sends = 0
  /\ rpos = << 0, 0 >>
  /\ msgData = << >>
  /\ readErr = ""
  /\ readMsgs = << >>

\* A message that is not a JSON object of the Request shape.
RecvMalformed ==
  doMain(Request(FALSE, "", "", FALSE, "", 0, FALSE, << >>), Quiet)

\* A request whose handling stops before its parameters are used: the adb
\* server cannot be reached, or the parameters do not unmarshal.
RecvUnhandled ==
  \E c \in {"push-file", "push-chunk"}, serverOk \in BOOLEAN :
    doMain(Request(TRUE, c, "", ~serverOk, "", 0, FALSE, << >>),
           Env(serverOk, TRUE, << >>, << >>, {}, ""))

\* list-devices, run-command, or a command the host does not know.
RecvOther ==
  \E c \in {"list-devices", "run-command", "reboot"}, listOk \in BOOLEAN :
    /\ c # "list-devices" => listOk
    /\ doMain(Request(TRUE, c, "", TRUE, "", 0, FALSE, << >>),
              Env(TRUE, listOk, << >>, << >>, {}, ""))

\* The write handles opened so far, and those a push-file would open.
Opened == Cardinality({k \in DOMAIN handle : handle[k].st # "none"})

WouldOpen(list, opens) ==
  Cardinality({list[i] : i \in {j \in 1..Len(list) : opens[j]}})

\* push-file for every device: ListDeviceSerials fails, or returns list.
RecvPushFileAll ==
  \E listOk \in BOOLEAN, list \in SerialLists, id \in NewRandom :
    \E opens \in [1..Len(list) -> BOOLEAN] :
      /\ ~listOk => list = << >>
      /\ Opened + WouldOpen(list, opens) <= MaxHandles
      /\ doMain(Request(TRUE, "push-file", "", TRUE, "", 0, FALSE, << >>),
                Env(TRUE, listOk, list, opens, {}, id))

\* push-file for the device with the given serial.
RecvPushFileOne ==
  \E serial \in Serials, id \in NewRandom, opens \in [1..1 -> BOOLEAN] :
    /\ Opened + WouldOpen(<<serial>>, opens) <= MaxHandles
    /\ doMain(Request(TRUE, "push-file", serial, TRUE, "", 0, FALSE, << >>),
              Env(TRUE, TRUE, << >>, opens, {}, id))

\* push-chunk.  The devices that can reject a write are those the stream
\* still writes to; the data vary where the stream is registered and the
\* chunk is the expected one or EOF, the index where it is registered.
RecvPushChunk ==
  \E id \in StreamIDs, index \in ChunkIndexes, eof \in BOOLEAN,
     data \in DataValues, failing \in SUBSET Serials :
    LET reaches == /\ id \in pushStreams
                   /\ ~eof
                   /\ heap[id].LastChunkIndex = index - 1
    IN /\ id \notin pushStreams => index = 0
       /\ data # << >> => (reaches \/ (eof /\ id \in pushStreams))
       /\ failing # {} =>
            /\ reaches
            /\ DecodeString(data).ok
            /\ failing \subseteq heap[id].DeviceStreams
       /\ doMain(Request(TRUE, "push-chunk", "", TRUE, id, index, eof, data),
                 Env(TRUE, TRUE, << >>, << >>, failing, ""))

Next ==
  \/ RecvMalformed
  \/ RecvUnhandled
  \/ RecvOther
  \/ RecvPushFileAll
  \/ RecvPushFileOne
  \/ RecvPushChunk

Spec == Init /\ [][Next]_vars

(***************************************************************************)
(* The extension's push client (downloadUrl) talking to the host           *)
(***************************************************************************)

\* Longest chunk the extension's reader returns, in bytes.
MaxPayload == 2

\* The byte values the chunks are made of.
Bytes == {0, 65, 255}

Payloads == UNION { [1..n -> Bytes] : n \in 0..MaxPayload }

\* The decimal digits of n as character codes.
RECURSIVE decimal(_)
decimal(n) ==
  IF n < 10 THEN << 48 + n >> ELSE decimal(n \div 10) \o << 48 + (n % 10) >>

\* String(value) for a Uint8Array, which is what btoa does to its argument:
\* the elements in decimal joined by commas, as character codes.
RECURSIVE Uint8ArrayToString(_)
Uint8ArrayToString(value) ==
  IF Len(value) = 0 THEN << >>
  ELSE IF Len(value) = 1 THEN decimal(value[1])
  ELSE decimal(value[1]) \o << 44 >> \o Uint8ArrayToString(Tail(value))

\* The base64 character of the six bits v.
sextet(v) == encodeStd[v + 1]

\* btoa(str): the base64 encoding, with padding, of the character codes.
RECURSIVE btoa(_)
btoa(str) ==
  IF Len(str) = 0 THEN << >>
  ELSE IF Len(str) = 1
  THEN << sextet(str[1] \div 4), sextet((str[1] % 4) * 16),
          StdPadding, StdPadding >>
  ELSE IF Len(str) = 2
  THEN << sextet(str[1] \div 4),
          sextet((str[1] % 4) * 16 + str[2] \div 16),
          sextet((str[2] % 16) * 4), StdPadding >>
  ELSE << sextet(str[1] \div 4),
          sextet((str[1] % 4) * 16 + str[2] \div 16),
          sextet((str[2] % 16) * 4 + str[3] \div 64),
          sextet(str[3] % 64) >> \o btoa(SubSeq(str, 4, Len(str)))

\* closeStream's message.
closeStream(id) == Request(TRUE, "push-chunk", "", TRUE, id, 0, TRUE, << >>)

\* What sendNextChunk posts once reader.read() settles: kind is "value"
\* with the bytes read, "done" at the end of the body, "error" when the
\* read is rejected.
sendNextChunk(id, index, kind, value) ==
  IF kind = "value"
  THEN << Request(TRUE, "push-chunk", "", TRUE, id, index, FALSE,
                  btoa(Uint8ArrayToString(value))) >>
  ELSE << closeStream(id) >>

\* downloadUrl once the fetch succeeded: the port is opened and push-file
\* is posted, with no device_serial.
downloadUrl ==
  /\ port = "none"
  /\ port' = "connected"
  /\ outbox' = << Request(TRUE, "push-file", "", TRUE, "", 0, FALSE, << >>) >>
  /\ UNCHANGED << streamId, chunkIndex, payload, inbox >>
  /\ UNCHANGED << hostVars, loopVars, sseVars, frameVars >>

\* The host handles the oldest posted message and answers it.
hostStep ==
  /\ outbox # << >>
  /\ \E list \in SerialLists, id \in NewRandom, failing \in SUBSET Serials :
       \E opens \in [1..Len(list) -> BOOLEAN] :
         /\ IF Head(outbox).command = "push-file"
            THEN list # << >> /\ failing = {}
            ELSE /\ list = << >>
                 /\ Head(outbox).stream_id \in pushStreams
                      => failing \subseteq
                           heap[Head(outbox).stream_id].DeviceStreams
                 /\ Head(outbox).stream_id \notin pushStreams
                      => failing = {}
         /\ answer(Head(outbox), Env(TRUE, TRUE, list, opens, failing, id),
                   handleRequest(Mem, Head(outbox),
                                 Env(TRUE, TRUE, list, opens, failing, id)))
  /\ outbox' = Tail(outbox)
  /\ inbox' = IF port = "connected" THEN Append(inbox, resp') ELSE inbox
  /\ UNCHANGED << port, streamId, chunkIndex, payload >>
  /\ UNCHANGED << loopVars, sseVars, frameVars >>

\* The listener is done with the message and posts nothing.
idle(newPort) ==
  /\ port' = newPort
  /\ UNCHANGED << streamId, chunkIndex, payload, outbox >>

\* The listener going on to sendNextChunk without chunkIndex++.
proceedSameIndex(id, index, giveUp, kind, value) ==
  /\ streamId' = id
  /\ chunkIndex' = chunkIndex
  /\ payload' = IF kind = "value" THEN value ELSE payload
  /\ outbox' = outbox \o (IF giveUp THEN << closeStream(id) >> ELSE << >>)
                      \o sendNextChunk(id, chunkIndex, kind, value)
  /\ UNCHANGED port

\* The listener goes on to sendNextChunk, after closeStream when giveUp.
proceed(id, index, giveUp, kind, value) ==
  /\ streamId' = id
  /\ chunkIndex' = index
  /\ payload' = IF kind = "value" THEN value ELSE payload
  /\ outbox' = outbox \o (IF giveUp THEN << closeStream(id) >> ELSE << >>)
                      \o sendNextChunk(id, index, kind, value)
  /\ UNCHANGED port

\* streamPort.onMessage's listener for the oldest response, with the
\* outcome of the reader.read() it starts.
onMessage ==
  /\ port = "connected"
  /\ inbox # << >>
  /\ inbox' = Tail(inbox)
  /\ \E kind \in {"value", "done", "error"}, value \in Payloads :
       /\ kind # "value" => value = << >>
       /\ kind = "value" =>
            (IF Head(inbox).Command = "push-file" THEN chunkIndex
             ELSE chunkIndex + 1) < MaxChunks
       /\ IF ~Head(inbox).Success THEN kind = "done" /\ idle("disconnected")
          ELSE IF Head(inbox).Command = "push-file"
          THEN proceed(Head(inbox).Data.StreamID, chunkIndex, FALSE, kind,
                       value)
          ELSE IF Head(inbox).Command = "push-chunk"
          THEN IF Head(inbox).Data.EndOfStream
               THEN kind = "done" /\ idle("disconnected")
               ELSE proceed(streamId, chunkIndex + 1,
                            ~Head(inbox).Data.Success, kind, value)
          ELSE kind = "done" /\ idle(port)
  /\ UNCHANGED << hostVars, loopVars, sseVars, frameVars >>

NextSender ==
  \/ downloadUrl
  \/ hostStep
  \/ onMessage

SpecSender == Init /\ [][NextSender]_vars

(***************************************************************************)
(* doMain step by step: readMessage, the handling, sendResponse            *)
(***************************************************************************)

\* Messages doMain reads in one run.
MaxMsgs == 3

\* A command string longer than MaxOutgoingMsgLen.
LongCommand == "x.. (longer than MaxOutgoingMsgLen)"

\* The messages on stdin, as json.Unmarshal leaves req: one that does not
\* parse, one per command, and the push-chunk messages.
Messages ==
  { Request(FALSE, "", "", FALSE, "", 0, FALSE, << >>),
    Request(TRUE, "run-command", "", FALSE, "", 0, FALSE, << >>) }
  \cup { Request(TRUE, c, "", TRUE, "", 0, FALSE, << >>) :
           c \in {"list-devices", "run-command", "reboot", LongCommand} }
  \cup { Request(TRUE, "push-file", serial, TRUE, "", 0, FALSE, << >>) :
           serial \in {"", "A"} }
  \cup { Request(TRUE, "push-chunk", "", TRUE, id, index, FALSE, data) :
           id \in StreamIDs, index \in ChunkIndexes,
           data \in {<<"Q","Q","=","=">>, <<"Q","U","I">>} }
  \cup { Request(TRUE, "push-chunk", "", TRUE, id, 0, TRUE, << >>) :
           id \in StreamIDs }

\* readMessage that takes a frame of length 0 for the end of stdin.
readMessageZeroEnds ==
  /\ pc = "loop"
  /\ \/ /\ pc' \in {"exit", "fatal"}
        /\ UNCHANGED << req, msgs, msg >>
     \/ /\ msgs < MaxMsgs
        /\ \E m \in Messages, data \in {"nil", "data"} :
             /\ m.command = "push-chunk" /\ m.stream_id \notin pushStreams
                  => m.chunk_index = 0 /\ m.data = <<"Q","Q","=","=">>
             /\ data = "nil" => ~m.parses
             /\ req' = m
             /\ msg' = data
             /\ pc' = IF data = "nil" THEN "exit" ELSE "handle"
        /\ msgs' = msgs + 1
  /\ UNCHANGED << heap, pushStreams, handle, env, resp, accepted, closedBy,
                  chunks, frames >>
  /\ UNCHANGED << senderVars, sseVars, frameVars >>

\* readMessage at the top of the loop: the end of stdin (doMain returns),
\* a read error (log.Fatalf), or a frame.  A frame of length 0 gives no
\* data and no error, and json.Unmarshal then fails on it as on any
\* message that is not JSON.
readMessage ==
  /\ pc = "loop"
  /\ \/ /\ pc' \in {"exit", "fatal"}
        /\ UNCHANGED << req, msgs, msg >>
     \/ /\ msgs < MaxMsgs
        /\ \E m \in Messages, data \in {"nil", "data"} :
             /\ m.command = "push-chunk" /\ m.stream_id \notin pushStreams
                  => m.chunk_index = 0 /\ m.data = <<"Q","Q","=","=">>
             /\ data = "nil" => ~m.parses
             /\ req' = m
             /\ msg' = data
        /\ msgs' = msgs + 1
        /\ pc' = "handle"
  /\ UNCHANGED << heap, pushStreams, handle, env, resp, accepted, closedBy,
                  chunks, frames >>
  /\ UNCHANGED << senderVars, sseVars, frameVars >>

\* handling that goes back to the top of the loop with the response unsent.
handlingDeferSend ==
  /\ pc = "handle"
  /\ \E id \in NewRandom :
       answer(req, Env(TRUE, TRUE, << >>, << TRUE >>, {}, id),
              IF ~req.parses
              THEN Result(Mem, NoData, "error parsing message", "")
              ELSE handleRequest(Mem, req,
                                 Env(TRUE, TRUE, << >>, << TRUE >>, {}, id)))
  /\ pc' = "loop"
  /\ UNCHANGED << msgs, msg, frames >>
  /\ UNCHANGED << senderVars, sseVars, frameVars >>

\* json.Unmarshal and handleRequest for the message read, up to the call
\* of sendResponse; resp is the response with its Command set.
handling ==
  /\ pc = "handle"
  /\ \E serverOk \in BOOLEAN, listOk \in BOOLEAN, list \in SerialLists,
        id \in NewRandom, failing \in SUBSET Serials :
       \E opens \in [1..(IF req.device_serial = "" THEN Len(list) ELSE 1)
                       -> BOOLEAN] :
         /\ ~(req.parses /\ serverOk /\ req.command = "push-file"
              /\ req.device_serial = "")
              => list = << >>
         /\ ~(req.parses /\ serverOk /\ req.command = "push-file")
              => \A i \in DOMAIN opens : opens[i]
         /\ ~(req.parses /\ serverOk
              /\ req.command \in {"list-devices", "push-file"}
              /\ req.device_serial = "")
              => listOk
         /\ ~listOk => list = << >>
         /\ ~serverOk => req.parses
         /\ failing # {} =>
              /\ req.parses /\ serverOk /\ req.command = "push-chunk"
              /\ req.stream_id \in pushStreams
              /\ failing \subseteq heap[req.stream_id].DeviceStreams
              /\ req.chunk_index = heap[req.stream_id].LastChunkIndex + 1
              /\ DecodeString(req.data).ok
         /\ Opened + WouldOpen(IF req.device_serial = "" THEN list
                               ELSE << req.device_serial >>, opens)
              <= MaxHandles
         /\ answer(req, Env(serverOk, listOk, list, opens, failing, id),
                   IF ~req.parses
                   THEN Result(Mem, NoData, "error parsing message", "")
                   ELSE handleRequest(Mem, req,
                                      Env(serverOk, listOk, list, opens,
                                          failing, id)))
  /\ pc' = "send"
  /\ UNCHANGED << msgs, msg, frames >>
  /\ UNCHANGED << senderVars, sseVars, frameVars >>

\* The response sendResponse falls back to.
tooLarge(command) == Response(FALSE, "message too large", command, NoData)

\* sendMessage's length check: big is whether the data or the error text
\* of the response makes its msgLen greater than MaxOutgoingMsgLen.
fits(response, big) == ~big /\ response.Command # LongCommand

\* The responses whose data or error text can be that long: the device
\* list, the output of a command, the echo of the params.
canBeBig(response) ==
  \/ response.Data.kind \in {"list-devices", "run-command"}
  \/ response.Error = "invalid params"

\* The frame for the response went out, or the write failed and log.Fatalf
\* ended the process.
wrote(response, writeOk) ==
  /\ resp' = response
  /\ frames' = IF writeOk THEN frames + 1 ELSE frames
  /\ pc' = IF writeOk THEN "loop" ELSE "fatal"

\* sendResponse: the response is sent; one that is too large is replaced;
\* when the replacement is too large as well the calls never end.
sendResponse ==
  /\ pc = "send"
  /\ \E big \in BOOLEAN, writeOk \in BOOLEAN :
       /\ big => canBeBig(resp)
       /\ IF fits(resp, big) THEN wrote(resp, writeOk)
          ELSE IF fits(tooLarge(req.command), FALSE)
          THEN wrote(tooLarge(req.command), writeOk)
          ELSE /\ writeOk
               /\ pc' = "overflow"
               /\ UNCHANGED << resp, frames >>
  /\ UNCHANGED << heap, pushStreams, handle, req, env, accepted, closedBy,
                  chunks, msgs, msg >>
  /\ UNCHANGED << senderVars, sseVars, frameVars >>

NextLoop ==
  \/ readMessage
  \/ handling
  \/ sendResponse

SpecLoop == Init /\ [][NextLoop]_vars

(***************************************************************************)
(* The proxy's EventSource (src/proxy/sse.go)                              *)
(***************************************************************************)

\* bufio.MaxScanTokenSize, the size a Scanner's buffer grows to.
MaxScanTokenSize == 64 * 1024

\* Longest Data string of an event, in characters of Chars.
MaxText == 3

\* SendEvent is called while the body is shorter than this.
MaxBody == 5

LF == "\n"

CR == "\r"

\* One character standing for a run of MaxScanTokenSize - 1 letters.
LongRun == "x.."

Chars == {"a", LF, CR, LongRun}

width(c) == IF c = LongRun THEN MaxScanTokenSize - 1 ELSE 1

RECURSIVE textWidth(_)
textWidth(s) == IF s = << >> THEN 0 ELSE width(Head(s)) + textWidth(Tail(s))

Event(comment, name, data) ==
  [Data |-> data, Comment |-> comment, Name |-> name]

\* The position of the first LF of data, or 0.
firstLF(data) ==
  IF \E i \in 1..Len(data) : data[i] = LF
  THEN CHOOSE i \in 1..Len(data) :
         data[i] = LF /\ \A j \in 1..(i - 1) : data[j] # LF
  ELSE 0

dropCR(data) ==
  IF Len(data) > 0 /\ data[Len(data)] = CR
  THEN SubSeq(data, 1, Len(data) - 1)
  ELSE data

\* fmt.Fprintln without the space between its operands.
fprintlnNoSpace(prefix, text) == prefix \o text \o << LF >>

\* fmt.Fprintln(w, prefix, text): the operands, a space between them, and
\* a newline.
Fprintln(prefix, text) == prefix \o << " " >> \o text \o << LF >>

\* The loop of writePrefixedLines over the Scanner's tokens.  A token is
\* the text before the first LF, or all of it; one the buffer cannot hold
\* ends the scan with ErrTooLong.  rest is the outcome for the text after
\* the token.
RECURSIVE scanLoop(_, _)

scanToken(prefix, token, rest) ==
  IF textWidth(token) >= MaxScanTokenSize
  THEN [err |-> "bufio.Scanner: token too long", out |-> << >>]
  ELSE [err |-> rest.err,
        out |-> Fprintln(prefix, dropCR(token)) \o rest.out]

scanAt(prefix, data, i) ==
  IF i > 0
  THEN scanToken(prefix, SubSeq(data, 1, i - 1),
                 scanLoop(prefix, SubSeq(data, i + 1, Len(data))))
  ELSE scanToken(prefix, data, scanLoop(prefix, << >>))

scanLoop(prefix, data) ==
  IF data = << >> THEN [err |-> "", out |-> << >>]
  ELSE scanAt(prefix, data, firstLF(data))

\* What the call writes to w, and what it returns.
writePrefixedLines(prefix, data) == scanLoop(prefix, data)

\* SendEvent after the comment and the name: c and n are what
\* writePrefixedLines gave for them, d what it gives for the data.
sendData(c, n, d) ==
  IF c.err # "" THEN c
  ELSE IF n.err # "" THEN [err |-> n.err, out |-> c.out \o n.out]
  ELSE IF d.err # "" THEN [err |-> d.err, out |-> c.out \o n.out \o d.out]
  ELSE [err |-> "", out |-> c.out \o n.out \o d.out \o << LF >>]

skipped == [err |-> "", out |-> << >>]

\* What SendEvent(e) writes to s.w, and what it returns.
SendEvent(e) ==
  sendData(IF e.Comment # << >>
           THEN writePrefixedLines(<< ":" >>, e.Comment) ELSE skipped,
           IF e.Name # << >>
           THEN writePrefixedLines(<< "e","v","e","n","t",":" >>, e.Name)
           ELSE skipped,
           IF e.Data # << >>
           THEN writePrefixedLines(<< "d","a","t","a",":" >>, e.Data)
           ELSE skipped)

Texts(n) == UNION { [1..k -> Chars] : k \in 0..n }

\* The call SendEvent(e) returned r.
sent(e, r) ==
  /\ event' = e
  /\ body' = body \o r.out
  /\ sseErr' = r.err
  /\ UNCHANGED << hostVars, loopVars, senderVars, frameVars >>

\* An event handler calls SendEvent.
handler ==
  /\ Len(body) < MaxBody
  /\ \E comment \in Texts(1), name \in Texts(1), data \in Texts(MaxText) :
       /\ comment \in {<< >>, << "a" >>}
       /\ name \in {<< >>, << "a" >>}
       /\ sent(Event(comment, name, data),
               SendEvent(Event(comment, name, data)))

\* SendJSON: the data marshalled by encoding/json, which is one line.
SendJSON ==
  /\ Len(body) < MaxBody
  /\ \E dataBytes \in Texts(2) :
       /\ \A i \in 1..Len(dataBytes) : dataBytes[i] \notin {LF, CR}
       /\ dataBytes # << >>
       /\ sent(Event(<< >>, << >>, dataBytes),
               SendEvent(Event(<< >>, << >>, dataBytes)))

NextSSE ==
  \/ handler
  \/ SendJSON

SpecSSE == Init /\ [][NextSSE]_vars

(***************************************************************************)
(* Native messaging frames: sendMessage writes them, ReadMessage reads     *)
(* them back                                                               *)
(***************************************************************************)

\* Calls of sendMessage in one run.
MaxFrames == 2

\* A length or an offset is the number hi * Base + lo, written << hi, lo >>
\* with lo < Base: an int of 64 bits and a uint32 both keep their width.
Base == 65536

num(hi, lo) == << hi, lo >>

Zero == num(0, 0)

One == num(0, 1)

Four == num(0, 4)

plus(a, b) ==
  num(a[1] + b[1] + (a[2] + b[2]) \div Base, (a[2] + b[2]) % Base)

\* a - b, for b not above a.
minus(a, b) ==
  IF a[2] >= b[2] THEN num(a[1] - b[1], a[2] - b[2])
  ELSE num(a[1] - b[1] - 1, a[2] + Base - b[2])

less(a, b) == a[1] < b[1] \/ (a[1] = b[1] /\ a[2] < b[2])

\* The conversion uint32(n) of an int: the low 32 bits.
uint32(n) == num(n[1] % Base, n[2])

MaxOutgoingMsgLen == num((1024 * 1024) \div Base, (1024 * 1024) % Base)

\* A byte string is a sequence of runs << byte, count >>, the neighbours
\* of a run being runs of other bytes.
run(byte, count) == << << byte, count >> >>

RECURSIVE len(_)
len(s) == IF s = << >> THEN Zero ELSE plus(s[1][2], len(Tail(s)))

cat(a, b) ==
  IF a = << >> THEN b
  ELSE IF b = << >> THEN a
  ELSE IF a[Len(a)][1] = b[1][1]
  THEN SubSeq(a, 1, Len(a) - 1)
         \o run(b[1][1], plus(a[Len(a)][2], b[1][2])) \o Tail(b)
  ELSE a \o b

\* The first n bytes of s (all of s when it has fewer), and the rest.
RECURSIVE take(_, _)
take(s, n) ==
  IF s = << >> \/ n = Zero THEN << >>
  ELSE IF less(n, s[1][2]) THEN run(s[1][1], n)
  ELSE << s[1] >> \o take(Tail(s), minus(n, s[1][2]))

RECURSIVE drop(_, _)
drop(s, n) ==
  IF s = << >> \/ n = Zero THEN s
  ELSE IF less(n, s[1][2])
  THEN run(s[1][1], minus(s[1][2], n)) \o Tail(s)
  ELSE drop(Tail(s), minus(n, s[1][2]))

\* The i-th byte of s, for i up to 4.
RECURSIVE at(_, _)
at(s, i) ==
  IF less(num(0, i - 1), s[1][2]) THEN s[1][1]
  ELSE at(Tail(s), i - s[1][2][2])

\* byteOrder: the four bytes of a uint32, least significant first, and the
\* uint32 of four bytes.
PutUint32(v) ==
  cat(cat(run(v[2] % 256, One), run(v[2] \div 256, One)),
      cat(run(v[1] % 256, One), run(v[1] \div 256, One)))

Uint32(b) == num(at(b, 3) + 256 * at(b, 4), at(b, 1) + 256 * at(b, 2))

\* A JSON text of n bytes, n above 2: an object's braces around n - 2 more.
Json(n) ==
  cat(cat(run(123, One), run(120, minus(n, num(0, 2)))), run(125, One))

\* The marshalled messages sendMessage is called with: "7", "{}", "[]",
\* one of exactly MaxOutgoingMsgLen bytes, one of one byte more, and one
\* of 2^32 + 2 bytes.
Msgs ==
  { run(55, One),
    cat(run(123, One), run(125, One)),
    cat(run(91, One), run(93, One)),
    Json(MaxOutgoingMsgLen),
    Json(plus(MaxOutgoingMsgLen, One)),
    Json(num(Base, 2)) }

\* sendMessage(m, w) with msgLen computed: the length check, binary.Write of
\* the prefix, w.Write of the message.  failed is the write that w rejects
\* and k the bytes w took of it before; a failed send ends the process
\* (log.Fatalf) and so the stream.
put(m, msgLen, failed, k) ==
  /\ lastMsg' = m
  /\ sends' = sends + 1
  /\ IF less(MaxOutgoingMsgLen, msgLen)
     THEN /\ failed = "none" /\ k = 0
          /\ sendErr' = "ErrMsgTooLarge"
          /\ UNCHANGED << stdout, sentMsgs, wEnd >>
     ELSE IF failed = "prefix"
     THEN /\ stdout' = cat(stdout, take(PutUint32(msgLen), num(0, k)))
          /\ sendErr' = "write error"
          /\ wEnd' = "closed"
          /\ UNCHANGED sentMsgs
     ELSE IF failed = "message"
     THEN /\ less(num(0, k), len(m))
          /\ stdout' = cat(cat(stdout, PutUint32(msgLen)),
                           take(m, num(0, k)))
          /\ sendErr' = "write error"
          /\ wEnd' = "closed"
          /\ UNCHANGED sentMsgs
     ELSE /\ k = 0
          /\ stdout' = cat(cat(stdout, PutUint32(msgLen)), m)
          /\ sendErr' = ""
          /\ sentMsgs' = Append(sentMsgs, m)
          /\ UNCHANGED wEnd

sendMessage ==
  /\ wEnd = "open"
  /\ sends < MaxFrames
  /\ \E m \in Msgs, failed \in {"none", "prefix", "message"}, k \in {0, 1} :
       put(m, uint32(len(m)), failed, k)
  /\ UNCHANGED << rpos, msgData, readErr, readMsgs >>
  /\ UNCHANGED << hostVars, loopVars, senderVars, sseVars >>

\* The writing process ends and the stream with it.
Exit ==
  /\ wEnd = "open"
  /\ wEnd' = "closed"
  /\ UNCHANGED << stdout, lastMsg, sendErr, sentMsgs, sends, rpos, msgData,
                  readErr, readMsgs >>
  /\ UNCHANGED << hostVars, loopVars, senderVars, sseVars >>

\* What io.ReadFull returns when the input ends before the buffer is full:
\* got is what it read.
short(got) == IF got = << >> THEN "EOF" ELSE "ErrUnexpectedEOF"

\* ReadMessage stopped by the end of the input.
ended(got) ==
  /\ wEnd = "closed"
  /\ rpos' = len(stdout)
  /\ msgData' = << >>
  /\ readErr' = short(got)
  /\ UNCHANGED readMsgs

\* ReadMessage once binary.Read gave msgLen: rest is the input after it.
got4(msgLen, rest) ==
  IF less(msgLen, One)
  THEN /\ rpos' = plus(rpos, Four)
       /\ msgData' = << >>
       /\ readErr' = ""
       /\ UNCHANGED readMsgs
  ELSE IF less(len(rest), msgLen) THEN ended(rest)
  ELSE /\ rpos' = plus(plus(rpos, Four), msgLen)
       /\ msgData' = take(rest, msgLen)
       /\ readErr' = ""
       /\ readMsgs' = Append(readMsgs, take(rest, msgLen))

\* ReadMessage(r) on the bytes not yet consumed; a read waits for bytes
\* while the stream is open, and after an error the reader stops.
unread(input) ==
  IF less(len(input), Four) THEN ended(input)
  ELSE got4(Uint32(take(input, Four)), drop(input, Four))

ReadMessage ==
  /\ readErr = ""
  /\ unread(drop(stdout, rpos))
  /\ UNCHANGED << stdout, wEnd, lastMsg, sendErr, sentMsgs, sends >>
  /\ UNCHANGED << hostVars, loopVars, senderVars, sseVars >>

NextFrame ==
  \/ sendMessage
  \/ Exit
  \/ ReadMessage

SpecFrame == Init /\ [][NextFrame]_vars

(***************************************************************************)
(* Properties                                                              *)
(***************************************************************************)

\* The step handles a push-chunk request that reaches the registry lookup.
ChunkStep ==
  /\ req'.parses /\ env'.serverOk
  /\ req'.command = "push-chunk" /\ req'.paramsOk

\* ... for a registered stream, as a chunk of data.
DataStep ==
  /\ ChunkStep
  /\ req'.stream_id \in pushStreams
  /\ ~req'.eof

\* ... whose index is the expected one and whose data decode.
WriteStep ==
  /\ DataStep
  /\ req'.chunk_index = heap[req'.stream_id].LastChunkIndex + 1
  /\ DecodeString(req'.data).ok

\* The last request was a push-file that reached newPushStream.
FileDone ==
  /\ req.parses /\ env.serverOk
  /\ req.command = "push-file" /\ req.paramsOk

\* The serials the last push-file tried, in order.
Tried == IF req.device_serial = "" THEN env.list ELSE << req.device_serial >>

\* The i-th attempt opened a handle: OpenWrite succeeded and the serial had
\* no handle yet.
OpenedAt(i) ==
  /\ env.opens[i]
  /\ \A j \in 1..(i - 1) : Tried[j] = Tried[i] => ~env.opens[j]

OpenSucceeded == { Tried[i] : i \in { j \in 1..Len(Tried) : OpenedAt(j) } }

OpenFailed == { Tried[i] : i \in { j \in 1..Len(Tried) : ~OpenedAt(j) } }

\* C1: every stream's LastChunkIndex is the number of its chunks answered
\* as accepted, minus one: -1 at creation, one more per accepted chunk, and
\* unchanged by everything else.
C1_LastIndexCountsAccepted ==
  \A id \in DOMAIN heap : heap[id].LastChunkIndex = accepted[id] - 1

C1_Witness ==
  \E id \in pushStreams :
    /\ heap[id].LastChunkIndex = 1
    /\ req.command = "push-chunk" /\ req.stream_id = id
    /\ resp.Data.kind = "push-chunk" /\ ~resp.Data.Success

\* C2: a data chunk for a registered stream whose index is not
\* LastChunkIndex + 1 is answered with success false, and neither the
\* stream objects, nor the registry, nor any device handle change.
C2_OutOfOrderRejected ==
  [][ (DataStep
       /\ req'.chunk_index # heap[req'.stream_id].LastChunkIndex + 1)
      => /\ resp'.Data.kind = "push-chunk"
         /\ ~resp'.Data.Success
         /\ resp'.Data.Error # ""
         /\ heap' = heap
         /\ pushStreams' = pushStreams
         /\ handle' = handle ]_vars

C2_Witness ==
  /\ req.command = "push-chunk" /\ ~req.eof
  /\ req.stream_id \in pushStreams
  /\ resp.Data.kind = "push-chunk" /\ ~resp.Data.Success
  /\ heap[req.stream_id].LastChunkIndex = 0
  /\ req.chunk_index = 0
  /\ heap[req.stream_id].DeviceStreams # {}

\* C3: a push-file that opens no write handle fails and leaves no stream
\* of its own in the registry.
C3_NoHandleNoStream ==
  (FileDone /\ \A s \in Serials : handle[<<env.newID, s>>].st = "none")
    => /\ ~resp.Success
       /\ env.newID \notin pushStreams

\* C4: after a push-file where some device failed to open and some device
\* opened, the response is a success carrying the stream's id, its
\* device_errors name exactly the serials with a failed attempt (OpenWrite
\* failed, or the serial already had a handle), and the registered stream
\* holds an open handle for exactly the serials that opened.
C4_PartialOpen ==
  (FileDone /\ env.listOk /\ OpenSucceeded # {} /\ OpenFailed # {})
    => /\ resp.Success
       /\ resp.Data.kind = "push-file"
       /\ resp.Data.StreamID = env.newID
       /\ env.newID \in pushStreams
       /\ DOMAIN resp.Data.DeviceErrors = OpenFailed
       /\ heap[env.newID].DeviceStreams = OpenSucceeded
       /\ \A s \in Serials :
            handle[<<env.newID, s>>].st = "open" <=> s \in OpenSucceeded

C4_Witness ==
  /\ FileDone /\ resp.Success
  /\ resp.Data.kind = "push-file"
  /\ DOMAIN resp.Data.DeviceErrors = {"A"}
  /\ resp.Data.StreamID \in pushStreams
  /\ heap[resp.Data.StreamID].DeviceStreams = {"B"}

\* C5: when the writes of an expected chunk leave the stream without a live
\* handle, the answer carries the all-devices-failed error and the stream
\* is deregistered; from then on the stream stays deregistered and every
\* push-chunk for its id, data or EOF, fails with the unknown-stream error.
C5_TotalFailureEndsStream ==
  [][ /\ (WriteStep
          /\ heap[req'.stream_id].DeviceStreams \subseteq env'.failing)
         => /\ resp'.Data.kind = "push-chunk"
            /\ ~resp'.Data.Success
            /\ resp'.Data.Error = "all device streams closed"
            /\ req'.stream_id \notin pushStreams'
      /\ \A id \in DOMAIN heap :
           (closedBy[id] = "write" /\ id \notin pushStreams)
           => /\ id \notin pushStreams'
              /\ (ChunkStep /\ req'.stream_id = id)
                 => /\ ~resp'.Success
                    /\ resp'.Error = "invalid stream ID" ]_vars

C5_Witness ==
  \E id \in DOMAIN heap :
    /\ closedBy[id] = "write"
    /\ accepted[id] >= 1
    /\ \E s \in Serials : handle[<<id, s>>].st = "closed"
    /\ heap[id].DeviceStreams = {}
    /\ req.command = "push-chunk" /\ req.stream_id = id
    /\ resp.Error = "invalid stream ID"

\* C6: an EOF chunk for a registered stream removes it from the registry;
\* an EOF chunk for a stream that an EOF removed fails with the
\* unknown-stream error and changes nothing.
C6_EofOnce ==
  [][ /\ (ChunkStep /\ req'.eof /\ req'.stream_id \in pushStreams)
         => /\ req'.stream_id \notin pushStreams'
            /\ resp'.Success
      /\ (ChunkStep /\ req'.eof /\ closedBy[req'.stream_id] = "eof")
         => /\ ~resp'.Success
            /\ resp'.Error = "invalid stream ID"
            /\ heap' = heap
            /\ pushStreams' = pushStreams
            /\ handle' = handle ]_vars

C6_Witness ==
  /\ req.command = "push-chunk" /\ req.eof
  /\ closedBy[req.stream_id] = "eof"
  /\ ~resp.Success
  /\ resp.Error = "invalid stream ID"

\* C7: a stream leaves the registry only through an EOF chunk for it, or
\* through an expected chunk for it after whose writes no device handle is
\* left; and a stream that left never comes back.
C7_OnlyTwoWaysOut ==
  [][ \A id \in DOMAIN heap :
        /\ (id \in pushStreams /\ id \notin pushStreams')
           => /\ ChunkStep
              /\ req'.stream_id = id
              /\ \/ req'.eof
                 \/ /\ req'.chunk_index = heap[id].LastChunkIndex + 1
                    /\ heap'[id].DeviceStreams = {}
        /\ id \notin pushStreams => id \notin pushStreams' ]_vars

\* C8: once a stream is deregistered it is never registered again, its
\* object never changes, and none of its device handles is written to or
\* closed again.
C8_ClosedIsTerminal ==
  [][ \A id \in DOMAIN heap :
        id \notin pushStreams
        => /\ id \notin pushStreams'
           /\ heap'[id] = heap[id]
           /\ \A s \in Serials :
                handle'[<<id, s>>] = handle[<<id, s>>] ]_vars

C8_Witness ==
  \E id \in DOMAIN heap :
    /\ id \notin pushStreams
    /\ \E s \in Serials : Len(handle[<<id, s>>].written) > 0
    /\ req.command = "push-chunk" /\ req.stream_id = id /\ ~req.eof
    /\ ~resp.Success

\* C9: in the writes of an expected chunk, every handle whose write fails
\* is closed and removed within the request; if some handle took the write
\* the chunk is accepted, the stream stays registered with the handles
\* that took it, and each of them got the decoded data.  A closed handle is
\* never written to or closed again, and no stream regains a device.
C9_DeviceFailureIsolated ==
  [][ /\ WriteStep =>
           LET id   == req'.stream_id
               live == heap[id].DeviceStreams
               took == live \ env'.failing
           IN /\ \A s \in live \cap env'.failing :
                   /\ handle'[<<id, s>>].st = "closed"
                   /\ handle'[<<id, s>>].written = handle[<<id, s>>].written
                   /\ s \notin heap'[id].DeviceStreams
              /\ took # {} =>
                   /\ resp'.Data.kind = "push-chunk"
                   /\ resp'.Data.Success
                   /\ id \in pushStreams'
                   /\ heap'[id].DeviceStreams = took
                   /\ \A s \in took :
                        /\ handle'[<<id, s>>].st = "open"
                        /\ handle'[<<id, s>>].written =
                             Append(handle[<<id, s>>].written,
                                    DecodeString(req'.data).bytes)
      /\ \A k \in DOMAIN handle :
           handle[k].st = "closed" => handle'[k] = handle[k]
      /\ \A id \in DOMAIN heap :
           heap'[id].DeviceStreams \subseteq heap[id].DeviceStreams ]_vars

C9_Witness ==
  \E id \in pushStreams :
    /\ heap[id].LastChunkIndex = 1
    /\ heap[id].DeviceStreams = {"B"}
    /\ handle[<<id, "A">>].st = "closed"
    /\ Len(handle[<<id, "A">>].written) = 1
    /\ Len(handle[<<id, "B">>].written) = 2

\* C10: no open device handle belongs to a stream that is absent from the
\* registry, or is missing from its stream's map.
C10_NoOpenHandleOutsideRegistry ==
  \A k \in DOMAIN handle :
    handle[k].st = "open"
    => /\ k[1] \in pushStreams
       /\ k[2] \in heap[k[1]].DeviceStreams

C10_Witness ==
  \E id \in DOMAIN heap :
    /\ id \notin pushStreams
    /\ closedBy[id] = "eof"
    /\ \A s \in Serials : handle[<<id, s>>].st = "closed"

\* C11: an EOF chunk for a registered stream is answered with success
\* whatever its chunk_index and data and however many handles failed
\* before; no handle is written to and LastChunkIndex stays as it was.
C11_EofAlwaysSucceeds ==
  [][ (ChunkStep /\ req'.eof /\ req'.stream_id \in pushStreams)
      => /\ resp'.Success
         /\ resp'.Error = ""
         /\ resp'.Data.kind = "push-chunk"
         /\ resp'.Data.Success
         /\ resp'.Data.ChunkIndex = req'.chunk_index
         /\ heap'[req'.stream_id].LastChunkIndex
              = heap[req'.stream_id].LastChunkIndex
         /\ \A k \in DOMAIN handle :
              /\ handle'[k].written = handle[k].written
              /\ handle'[k].late = handle[k].late ]_vars

C11_Witness ==
  /\ req.command = "push-chunk" /\ req.eof
  /\ resp.Success /\ resp.Data.kind = "push-chunk" /\ resp.Data.Success
  /\ req.data = <<"Q","U","I">>
  /\ req.chunk_index # heap[req.stream_id].LastChunkIndex + 1
  /\ \E s \in Serials :
       /\ handle[<<req.stream_id, s>>].st = "closed"
       /\ s \notin heap[req.stream_id].DeviceStreams

\* C12: whenever WriteChunk returns an error for a registered stream, the
\* stream's DeviceStreams map is empty.
C12_ErrorMeansNoDevices ==
  \A id \in pushStreams, d \in DataValues, failing \in SUBSET Serials :
    WriteChunk(Mem, id, d, failing).err # ""
    => WriteChunk(Mem, id, d, failing).g.heap[id].DeviceStreams = {}

\* C17: a push-chunk for a registered stream is answered with a
\* PushChunkResponse whose eof is true exactly when the stream is no longer
\* registered: true for an EOF request and for a write that left no device,
\* false, with the stream still registered, for an accepted chunk and for
\* an out-of-order one.
C17_EofIffDeregistered ==
  [][ (ChunkStep /\ req'.stream_id \in pushStreams)
      => /\ resp'.Data.kind = "push-chunk"
         /\ resp'.Data.EndOfStream <=> req'.stream_id \notin pushStreams'
         /\ req'.eof => resp'.Data.EndOfStream
         /\ (WriteStep
             /\ heap[req'.stream_id].DeviceStreams \subseteq env'.failing)
            => resp'.Data.EndOfStream
         /\ (~req'.eof /\ resp'.Data.Success)
            => ~resp'.Data.EndOfStream
         /\ (DataStep
             /\ req'.chunk_index # heap[req'.stream_id].LastChunkIndex + 1)
            => ~resp'.Data.EndOfStream ]_vars

C17_Witness ==
  /\ req.command = "push-chunk" /\ ~req.eof
  /\ resp.Data.kind = "push-chunk"
  /\ resp.Data.EndOfStream
  /\ resp.Data.Error = "all device streams closed"
  /\ req.stream_id \notin pushStreams
  /\ accepted[req.stream_id] >= 1

\* The bytes WriteChunk hands to the devices for the accepted chunks.
Decoded(id) ==
  [i \in 1..Len(chunks[id]) |-> DecodeString(chunks[id][i]).bytes]

\* C18: every device handle still in the map of a registered stream was
\* written exactly the decoded data of the stream's accepted chunks
\* 0..LastChunkIndex, each once and in index order, and nothing else.
C18_FanOutPrefix ==
  \A id \in pushStreams :
    /\ Len(chunks[id]) = heap[id].LastChunkIndex + 1
    /\ \A i \in 1..Len(chunks[id]) : DecodeString(chunks[id][i]).ok
    /\ \A s \in heap[id].DeviceStreams :
         handle[<<id, s>>].written = Decoded(id)

C18_Witness ==
  \E id \in pushStreams, other \in pushStreams :
    /\ id # other
    /\ heap[id].DeviceStreams # {} /\ heap[other].DeviceStreams # {}
    /\ chunks[id] = << <<"Q","Q","=","=">>, << >> >>
    /\ chunks[other] = << << >> >>
    /\ req.command = "push-chunk" /\ ~req.eof
    /\ resp.Data.kind = "push-chunk" /\ ~resp.Data.Success

\* C19: no device handle is closed twice or written to after it was
\* closed: a handle closed within a registered stream is no longer in the
\* stream's map, so the one Close of the stream does not reach it.
C19_NoDoubleClose ==
  \A k \in DOMAIN handle :
    /\ handle[k].closes <= 1
    /\ handle[k].late = 0
    /\ handle[k].st = "closed" <=> handle[k].closes = 1
    /\ (handle[k].st = "closed" /\ k[1] \in pushStreams)
       => k[2] \notin heap[k[1]].DeviceStreams

C19_Witness ==
  \E id \in DOMAIN heap :
    /\ closedBy[id] = "eof"
    /\ \E s \in Serials :
         /\ handle[<<id, s>>].st = "closed"
         /\ s \notin heap[id].DeviceStreams
    /\ \E s \in heap[id].DeviceStreams : handle[<<id, s>>].st = "closed"

\* C14: base64-decoding the standard encoding of the bytes the sender read
\* gives those bytes, and the bytes written to each device handle for an
\* accepted chunk are the bytes the sender read for it.
C14_WrittenIsPayload ==
  /\ DecodeString(btoa(payload)) = [ok |-> TRUE, bytes |-> payload]
  /\ (/\ req.command = "push-chunk" /\ ~req.eof
      /\ resp.Success /\ resp.Data.kind = "push-chunk" /\ resp.Data.Success)
     => \A s \in heap[req.stream_id].DeviceStreams :
          handle[<<req.stream_id, s>>].written
            [Len(handle[<<req.stream_id, s>>].written)] = payload

\* The lines of a text, read off its newlines: a line starts at the first
\* character and after every LF, ends before the next LF or at the end of
\* the text, and loses one trailing CR.
LineStarts(s) == { b \in 1..Len(s) : b = 1 \/ s[b - 1] = LF }

LineEnd(s, b) ==
  IF \E i \in b..Len(s) : s[i] = LF
  THEN CHOOSE i \in b..Len(s) : s[i] = LF /\ \A j \in b..(i - 1) : s[j] # LF
  ELSE Len(s) + 1

LineFrom(s, b) ==
  IF LineEnd(s, b) > b /\ s[LineEnd(s, b) - 1] = CR
  THEN SubSeq(s, b, LineEnd(s, b) - 2)
  ELSE SubSeq(s, b, LineEnd(s, b) - 1)

NthStart(s, k) ==
  CHOOSE b \in LineStarts(s) :
    Cardinality({ x \in LineStarts(s) : x < b }) = k - 1

RECURSIVE PrefixedFrom(_, _, _)
PrefixedFrom(prefix, s, k) ==
  IF k > Cardinality(LineStarts(s)) THEN << >>
  ELSE prefix \o << " " >> \o LineFrom(s, NthStart(s, k)) \o << LF >>
         \o PrefixedFrom(prefix, s, k + 1)

\* The event as the event-stream format writes it.
Encoding(e) ==
  PrefixedFrom(<< ":" >>, e.Comment, 1)
    \o PrefixedFrom(<< "e","v","e","n","t",":" >>, e.Name, 1)
    \o PrefixedFrom(<< "d","a","t","a",":" >>, e.Data, 1)
    \o << LF >>

C16_BodyIsConcatenation ==
  [][ body' = body \o Encoding(event') ]_vars

\* C13: a message is read only when every earlier message has been
\* handled and answered; the stream objects, the registry and the device
\* handles change only in the handling of the one message that is read and
\* not yet answered, and that handling is over before its response is sent.
C13_OneAtATime ==
  [][ /\ msgs' # msgs
         => (pc = "loop" /\ msgs' = msgs + 1 /\ frames = msgs)
      /\ << heap, pushStreams, handle >>' # << heap, pushStreams, handle >>
         => /\ pc = "handle" /\ pc' = "send"
            /\ msgs = frames + 1
            /\ msgs' = msgs /\ frames' = frames
      /\ frames' # frames
         => << heap, pushStreams, handle >>' = << heap, pushStreams, handle >>
      /\ msgs' - frames' \in {0, 1} ]_vars

C13_Witness ==
  /\ pc = "loop" /\ msgs = 3 /\ frames = 3
  /\ \E id \in pushStreams :
       /\ accepted[id] = 2
       /\ \E s \in heap[id].DeviceStreams :
            Len(handle[<<id, s>>].written) = 2

\* C20: every message read gets exactly one response frame, sent before
\* the next message is read and carrying the command of that message: a
\* frame is the answer to the message read last, and whenever the host is
\* at the top of its loop, has returned, or cannot go on, it has sent as
\* many frames as it has read messages.
C20_OneResponsePerMessage ==
  [][ /\ frames' # frames
         => /\ pc = "send"
            /\ frames' = frames + 1
            /\ frames' = msgs
            /\ req' = req
            /\ resp'.Command = req.command
      /\ msgs' # msgs => frames = msgs
      /\ pc' \in {"loop", "exit", "overflow"} => frames' = msgs' ]_vars

\* C21: every call of sendResponse ends with one frame written or with the
\* write error that stops the host, never in further calls of itself: the
\* frame is the response as handled, or, when that is longer than
\* MaxOutgoingMsgLen, the "message too large" response, which is always
\* short enough to send whatever the request's command is.
C21_SendResponseTerminates ==
  [][ pc = "send"
        => /\ pc' \in {"loop", "fatal"}
           /\ resp' \in {resp, tooLarge(req.command)}
           /\ fits(tooLarge(req.command), FALSE) ]_vars

\* A byte string made of complete frames: a length of four bytes, least
\* significant first, then exactly so many bytes, and so on to the end.
RECURSIVE Framed(_)
Framed(s) ==
  \/ s = << >>
  \/ /\ ~less(len(s), Four)
     /\ ~less(len(drop(s, Four)), Uint32(take(s, Four)))
     /\ Framed(drop(drop(s, Four), Uint32(take(s, Four))))

\* C22: a message longer than MaxOutgoingMsgLen is never written, not
\* even in part: a call of sendMessage with such a message, and a call
\* that returns ErrMsgTooLarge, leave the output as it was, every message
\* sendMessage has written is no longer than that, and as long as the
\* writer took every write the output is a sequence of complete frames.
C22_TooLargeNeverWritten ==
  /\ [](/\ \A i \in 1..Len(sentMsgs) :
             ~less(MaxOutgoingMsgLen, len(sentMsgs[i]))
        /\ sendErr # "write error" => Framed(stdout))
  /\ [][ sends' # sends
           /\ (less(MaxOutgoingMsgLen, len(lastMsg'))
                 \/ sendErr' = "ErrMsgTooLarge")
           => stdout' = stdout ]_vars

\* The messages written so far have lengths from 1 to MaxOutgoingMsgLen
\* and the writer took every write.
Clean ==
  /\ sendErr # "write error"
  /\ \A i \in 1..Len(sentMsgs) :
       /\ ~less(len(sentMsgs[i]), One)
       /\ ~less(MaxOutgoingMsgLen, len(sentMsgs[i]))

\* The messages written with lengths from 1 to MaxOutgoingMsgLen are read
\* back unchanged and in order, without an error before the end of input.
RoundTrip ==
  Clean =>
    /\ Len(readMsgs) <= Len(sentMsgs)
    /\ readMsgs = SubSeq(sentMsgs, 1, Len(readMsgs))
    /\ readErr # "ErrUnexpectedEOF"
    /\ readErr = "EOF" => readMsgs = sentMsgs
    /\ readErr = "" /\ rpos # Zero => msgData = readMsgs[Len(readMsgs)]

\* C23: the messages written with lengths from 1 to MaxOutgoingMsgLen are
\* read back unchanged and in order, and ReadMessage returns io.EOF only
\* when the input has ended and what it consumed is complete frames.
C23_FramingRoundTrip ==
  /\ RoundTrip
  /\ readErr = "EOF" =>
       /\ wEnd = "closed"
       /\ rpos = len(stdout)
       /\ Framed(stdout)

\* C24: a frame of length 0 does not stop the host: readMessage returns no
\* data and no error and doMain goes on to handle it; the response is the
\* parse error with success false; the stream objects, the registry and
\* the device handles stay as they are; the response is sent, and the host
\* is back at the top of its loop unless the write to stdout failed.
C24_ZeroLengthFrame ==
  [][ /\ (pc = "loop" /\ msgs' # msgs /\ msg' = "nil") => pc' = "handle"
      /\ (pc = "handle" /\ msg = "nil")
           => /\ resp' = Response(FALSE, "error parsing message", "", NoData)
              /\ << heap, pushStreams, handle >>'
                   = << heap, pushStreams, handle >>
              /\ pc' = "send"
      /\ (pc = "send" /\ msg = "nil")
           => /\ resp' = resp
              /\ << heap, pushStreams, handle >>'
                   = << heap, pushStreams, handle >>
              /\ pc' \in {"loop", "fatal"}
              /\ frames' = IF pc' = "loop" THEN frames + 1 ELSE frames ]_vars

C24_Witness ==
  /\ pc = "loop" /\ msg = "nil" /\ msgs = 2 /\ frames = 2
  /\ pushStreams # {}
  /\ \E k \in DOMAIN handle : handle[k].st = "open"
  /\ resp = Response(FALSE, "error parsing message", "", NoData)

\* C25: in every response of the host, as handled and as sent, success and
\* a non-empty error exclude each other: the Response has an Error only
\* with Success false, and so has the PushChunkResponse it carries.
C25_SuccessExcludesError ==
  /\ resp.Success => resp.Error = ""
  /\ resp.Data.kind = "push-chunk"
       => (resp.Data.Success => resp.Data.Error = "")

C25_Witness ==
  /\ pc = "loop" /\ frames = msgs /\ frames > 0
  /\ resp.Success /\ resp.Error = ""
  /\ resp.Data.kind = "push-chunk"
  /\ ~resp.Data.Success /\ resp.Data.Error # ""

=============================================================================
